---- MODULE Spec2Model ----
(***************************************************************************)
(* octavia_lib.api.drivers.provider_base.ProviderDriver: the provider      *)
(* driver interface.  Every operation of the base class is a stub that     *)
(* raises exceptions.NotImplementedError with a user-facing and an         *)
(* operator-facing string.  The model is a caller that invokes operations  *)
(* on a driver instance: either the base class itself or a concrete driver *)
(* that overrides a subset of the operations.                              *)
(***************************************************************************)
EXTENDS Integers, Sequences, FiniteSets, TLC

\* Number of opaque domain objects the caller owns and passes as arguments.
NumObjects == 2

\* The domain objects (load balancers, listeners, pools, members, ids, ...).
Objects == 1..NumObjects

\* The single object a conformance harness passes to a concrete driver.
MinimalObjects == {1}

VARIABLES
  name,       \* the class attribute ProviderDriver.name
  overrides,  \* the operations the driver class under test overrides
  objects,    \* the domain objects the caller draws arguments from
  reference,  \* per operation, the outcome of invoking it first on a fresh base instance
  prev,       \* what the caller remembers of the invocation before the last one
  last        \* the last invocation: operation, arguments, body that ran, outcome

vars == <<name, overrides, objects, reference, prev, last>>

\* The fault kinds of octavia_lib.api.drivers.exceptions named by the docstrings.
FaultKinds == {"NotImplementedError", "UnsupportedOptionError", "NotFound", "DriverError"}

\* The outcome of a call that has not raised or returned anything.
NoResult ==
  [kind |-> "none", user_fault_string |-> "", operator_fault_string |-> "", value |-> "none"]

\* exceptions.NotImplementedError(user_fault_string=..., operator_fault_string=...):
\* the fault carries the two strings given at the raise site, unchanged.
NotImplementedError(user_fault_string, operator_fault_string) ==
  [kind |-> "NotImplementedError",
   user_fault_string |-> user_fault_string,
   operator_fault_string |-> operator_fault_string,
   value |-> "none"]

\* create_vip_port returning the VIP dictionaries a supporting driver would return.
create_vip_port_Returns(loadbalancer_id, project_id, vip_dictionary, additional_vip_dicts) ==
  [kind |-> "return", user_fault_string |-> "", operator_fault_string |-> "",
   value |-> "vip_dictionary, additional_vip_dicts"]

\* create_vip_port, lines 26-61: the stub raises unconditionally.
create_vip_port(loadbalancer_id, project_id, vip_dictionary, additional_vip_dicts) ==
  NotImplementedError(
    "This provider does not support creating VIP " \o "ports.",
    "This provider does not support creating " \o "VIP ports. Octavia will create it.")

\* loadbalancer_create with the two keyword arguments exchanged.
loadbalancer_create_Swapped(loadbalancer) ==
  NotImplementedError(
    "This provider does not support creating " \o "load balancers. What?",
    "This provider does not support creating " \o "load balancers.")

\* loadbalancer_create, lines 63-78: the stub raises unconditionally.
loadbalancer_create(loadbalancer) ==
  NotImplementedError(
    "This provider does not support creating " \o "load balancers.",
    "This provider does not support creating " \o "load balancers. What?")

\* loadbalancer_delete refusing only the cascade form of the request.
loadbalancer_delete_CascadeOnly(loadbalancer, cascade) ==
  IF cascade
  THEN NotImplementedError(
         "This provider does not support cascade deleting " \o "load balancers.",
         "This provider does not support cascade deleting " \o "load balancers.")
  ELSE NotImplementedError(
         "This provider does not support deleting " \o "load balancers.",
         "This provider does not support deleting " \o "load balancers.")

\* loadbalancer_delete, lines 80-96: the stub raises unconditionally.
loadbalancer_delete(loadbalancer, cascade) ==
  NotImplementedError(
    "This provider does not support deleting " \o "load balancers.",
    "This provider does not support deleting " \o "load balancers.")

\* loadbalancer_failover refusing a second request while one is in progress.
loadbalancer_failover_Stateful(loadbalancer_id) ==
  IF last.op = "none"
  THEN NotImplementedError(
         "This provider does not support failing over " \o "load balancers.",
         "This provider does not support failing " \o "over load balancers.")
  ELSE [kind |-> "DriverError", user_fault_string |-> "A failover is in progress.",
        operator_fault_string |-> "A failover is in progress.", value |-> "none"]

\* loadbalancer_failover, lines 98-111: the stub raises unconditionally.
loadbalancer_failover(loadbalancer_id) ==
  NotImplementedError(
    "This provider does not support failing over " \o "load balancers.",
    "This provider does not support failing " \o "over load balancers.")

\* loadbalancer_update, lines 113-130: the stub raises unconditionally.
loadbalancer_update(old_loadbalancer, new_loadbalancer) ==
  NotImplementedError(
    "This provider does not support updating " \o "load balancers.",
    "This provider does not support updating " \o "load balancers.")

\* listener_create, lines 133-148: the stub raises unconditionally.
listener_create(listener) ==
  NotImplementedError(
    "This provider does not support creating " \o "listeners.",
    "This provider does not support creating " \o "listeners.")

\* listener_delete with a rationale appended to the operator string.
listener_delete_Rationale(listener) ==
  NotImplementedError(
    "This provider does not support deleting " \o "listeners.",
    "This provider does not support deleting " \o "listeners. Octavia will delete it.")

\* listener_delete, lines 150-163: the stub raises unconditionally.
listener_delete(listener) ==
  NotImplementedError(
    "This provider does not support deleting " \o "listeners.",
    "This provider does not support deleting " \o "listeners.")

\* listener_update, lines 165-182: the stub raises unconditionally.
listener_update(old_listener, new_listener) ==
  NotImplementedError(
    "This provider does not support updating " \o "listeners.",
    "This provider does not support updating " \o "listeners.")

\* pool_create, lines 185-200: the stub raises unconditionally.
pool_create(pool) ==
  NotImplementedError(
    "This provider does not support creating " \o "pools.",
    "This provider does not support creating " \o "pools.")

\* pool_delete with the strings of pool_create left in after copying the stub.
pool_delete_Copied(pool) ==
  NotImplementedError(
    "This provider does not support creating " \o "pools.",
    "This provider does not support creating " \o "pools.")

\* pool_delete, lines 202-215: the stub raises unconditionally.
pool_delete(pool) ==
  NotImplementedError(
    "This provider does not support deleting " \o "pools.",
    "This provider does not support deleting " \o "pools.")

\* pool_update, lines 217-234: the stub raises unconditionally.
pool_update(old_pool, new_pool) ==
  NotImplementedError(
    "This provider does not support updating " \o "pools.",
    "This provider does not support updating " \o "pools.")

\* member_create, lines 237-252: the stub raises unconditionally.
member_create(member) ==
  NotImplementedError(
    "This provider does not support creating " \o "members.",
    "This provider does not support creating " \o "members.")

\* member_delete, lines 254-267: the stub raises unconditionally.
member_delete(member) ==
  NotImplementedError(
    "This provider does not support deleting " \o "members.",
    "This provider does not support deleting " \o "members.")

\* member_update, lines 269-286: the stub raises unconditionally.
member_update(old_member, new_member) ==
  NotImplementedError(
    "This provider does not support updating " \o "members.",
    "This provider does not support updating " \o "members.")

\* member_batch_update rejecting an empty member list before anything else.
member_batch_update_EmptyRejected(pool_id, members) ==
  IF members = <<>>
  THEN [kind |-> "UnsupportedOptionError", user_fault_string |-> "No members given.",
        operator_fault_string |-> "No members given.", value |-> "none"]
  ELSE NotImplementedError(
         "This provider does not support batch " \o "updating members.",
         "This provider does not support batch " \o "updating members.")

\* member_batch_update, lines 288-305: the stub raises unconditionally.
member_batch_update(pool_id, members) ==
  NotImplementedError(
    "This provider does not support batch " \o "updating members.",
    "This provider does not support batch " \o "updating members.")

\* health_monitor_create, lines 308-323: the stub raises unconditionally.
health_monitor_create(healthmonitor) ==
  NotImplementedError(
    "This provider does not support creating " \o "health monitors.",
    "This provider does not support creating " \o "health monitors.")

\* health_monitor_delete, lines 325-338: the stub raises unconditionally.
health_monitor_delete(healthmonitor) ==
  NotImplementedError(
    "This provider does not support deleting " \o "health monitors.",
    "This provider does not support deleting " \o "health monitors.")

\* health_monitor_update, lines 340-357: the stub raises unconditionally.
health_monitor_update(old_healthmonitor, new_healthmonitor) ==
  NotImplementedError(
    "This provider does not support updating " \o "health monitors.",
    "This provider does not support updating " \o "health monitors.")

\* l7policy_create, lines 360-375: the stub raises unconditionally.
l7policy_create(l7policy) ==
  NotImplementedError(
    "This provider does not support creating " \o "l7policies.",
    "This provider does not support creating " \o "l7policies.")

\* l7policy_delete, lines 377-390: the stub raises unconditionally.
l7policy_delete(l7policy) ==
  NotImplementedError(
    "This provider does not support deleting " \o "l7policies.",
    "This provider does not support deleting " \o "l7policies.")

\* l7policy_update, lines 392-409: the stub raises unconditionally.
l7policy_update(old_l7policy, new_l7policy) ==
  NotImplementedError(
    "This provider does not support updating " \o "l7policies.",
    "This provider does not support updating " \o "l7policies.")

\* l7rule_create, lines 412-427: the stub raises unconditionally.
l7rule_create(l7rule) ==
  NotImplementedError(
    "This provider does not support creating " \o "l7rules.",
    "This provider does not support creating " \o "l7rules.")

\* l7rule_delete, lines 429-442: the stub raises unconditionally.
l7rule_delete(l7rule) ==
  NotImplementedError(
    "This provider does not support deleting " \o "l7rules.",
    "This provider does not support deleting " \o "l7rules.")

\* l7rule_update, lines 444-461: the stub raises unconditionally.
l7rule_update(old_l7rule, new_l7rule) ==
  NotImplementedError(
    "This provider does not support updating " \o "l7rules.",
    "This provider does not support updating " \o "l7rules.")

\* get_supported_flavor_metadata raising with another wording.
get_supported_flavor_metadata_Reworded ==
  NotImplementedError(
    "Flavors are not supported.",
    "This provider does not support getting " \o "the supported flavor metadata.")

\* get_supported_flavor_metadata, lines 464-478: the stub raises unconditionally.
get_supported_flavor_metadata ==
  NotImplementedError(
    "This provider does not support getting the " \o "supported flavor metadata.",
    "This provider does not support getting " \o "the supported flavor metadata.")

\* validate_flavor raising the not-found fault its docstring also names.
validate_flavor_NotFound(flavor_metadata) ==
  [kind |-> "NotFound", user_fault_string |-> "The flavor was not found.",
   operator_fault_string |-> "The flavor was not found.", value |-> "none"]

\* validate_flavor, lines 480-497: the stub raises unconditionally.
validate_flavor(flavor_metadata) ==
  NotImplementedError(
    "This provider does not support validating " \o "flavors.",
    "This provider does not support validating " \o "the supported flavor metadata.")

\* get_supported_availability_zone_metadata, lines 500-514: the stub raises unconditionally.
get_supported_availability_zone_metadata ==
  NotImplementedError(
    "This provider does not support getting the " \o "supported availability zone metadata.",
    "This provider does not support getting " \o "the supported availability zone metadata.")

\* validate_availability_zone with the user string repeated as the operator string.
validate_availability_zone_SameStrings(availability_zone_metadata) ==
  NotImplementedError(
    "This provider does not support validating " \o "availability zones.",
    "This provider does not support validating " \o "availability zones.")

\* validate_availability_zone, lines 516-532: the stub raises unconditionally.
validate_availability_zone(availability_zone_metadata) ==
  NotImplementedError(
    "This provider does not support validating " \o "availability zones.",
    "This provider does not support validating " \o "the supported availability zone metadata.")

\* The 28 operations ProviderDriver declares.
Operations ==
  {"create_vip_port", "loadbalancer_create", "loadbalancer_delete",
   "loadbalancer_failover", "loadbalancer_update", "listener_create",
   "listener_delete", "listener_update", "pool_create",
   "pool_delete", "pool_update", "member_create",
   "member_delete", "member_update", "member_batch_update",
   "health_monitor_create", "health_monitor_delete", "health_monitor_update",
   "l7policy_create", "l7policy_delete", "l7policy_update",
   "l7rule_create", "l7rule_delete", "l7rule_update",
   "get_supported_flavor_metadata", "validate_flavor", "get_supported_availability_zone_metadata",
   "validate_availability_zone"}

\* s begins with p.
StartsWith(s, p) == Len(p) <= Len(s) /\ SubSeq(s, 1, Len(p)) = p

\* t occurs in s (Python's `t in s` for strings).
Contains(s, t) == \E i \in 1..(Len(s) - Len(t) + 1) : SubSeq(s, i, i + Len(t) - 1) = t

\* The argument tuples the caller can pass to op, drawn from the objects objs.
ArgsOf(op, objs) ==
  CASE op = "create_vip_port" ->
         {<<l, p, v, a>> : l \in objs, p \in objs, v \in objs, a \in {<<>>} \cup {<<o>> : o \in objs}}
    [] op = "loadbalancer_delete" ->
         {<<l, c>> : l \in objs, c \in BOOLEAN}
    [] op = "member_batch_update" ->
         {<<p, m>> : p \in objs, m \in {<<>>} \cup {<<o>> : o \in objs}}
    [] op \in {"loadbalancer_update", "listener_update", "pool_update",
              "member_update", "health_monitor_update", "l7policy_update",
              "l7rule_update"} ->
         {<<old, new>> : old \in objs, new \in objs}
    [] op \in {"get_supported_flavor_metadata", "get_supported_availability_zone_metadata"} ->
         {<<>>}
    [] OTHER ->
         {<<o>> : o \in objs}

\* The body of the base class's method op applied to the arguments a.
Call(op, a) ==
  CASE op = "create_vip_port" ->
         create_vip_port(a[1], a[2], a[3], a[4])
    [] op = "loadbalancer_create" ->
         loadbalancer_create(a[1])
    [] op = "loadbalancer_delete" ->
         loadbalancer_delete(a[1], a[2])
    [] op = "loadbalancer_failover" ->
         loadbalancer_failover(a[1])
    [] op = "loadbalancer_update" ->
         loadbalancer_update(a[1], a[2])
    [] op = "listener_create" ->
         listener_create(a[1])
    [] op = "listener_delete" ->
         listener_delete(a[1])
    [] op = "listener_update" ->
         listener_update(a[1], a[2])
    [] op = "pool_create" ->
         pool_create(a[1])
    [] op = "pool_delete" ->
         pool_delete(a[1])
    [] op = "pool_update" ->
         pool_update(a[1], a[2])
    [] op = "member_create" ->
         member_create(a[1])
    [] op = "member_delete" ->
         member_delete(a[1])
    [] op = "member_update" ->
         member_update(a[1], a[2])
    [] op = "member_batch_update" ->
         member_batch_update(a[1], a[2])
    [] op = "health_monitor_create" ->
         health_monitor_create(a[1])
    [] op = "health_monitor_delete" ->
         health_monitor_delete(a[1])
    [] op = "health_monitor_update" ->
         health_monitor_update(a[1], a[2])
    [] op = "l7policy_create" ->
         l7policy_create(a[1])
    [] op = "l7policy_delete" ->
         l7policy_delete(a[1])
    [] op = "l7policy_update" ->
         l7policy_update(a[1], a[2])
    [] op = "l7rule_create" ->
         l7rule_create(a[1])
    [] op = "l7rule_delete" ->
         l7rule_delete(a[1])
    [] op = "l7rule_update" ->
         l7rule_update(a[1], a[2])
    [] op = "get_supported_flavor_metadata" ->
         get_supported_flavor_metadata
    [] op = "validate_flavor" ->
         validate_flavor(a[1])
    [] op = "get_supported_availability_zone_metadata" ->
         get_supported_availability_zone_metadata
    [] op = "validate_availability_zone" ->
         validate_availability_zone(a[1])

\* A lookup that reaches the subclass for every operation once it overrides any.
Resolve_AnyOverride(op) == IF overrides # {} THEN "override" ELSE "base"

\* A lookup that never leaves the base class.
Resolve_BaseOnly(op) == "base"

\* Attribute lookup on the instance: a method the subclass defines shadows the
\* base class's; ProviderDriver has no metaclass or lookup hook that changes this.
Resolve(op) == IF op \in overrides THEN "override" ELSE "base"

\* The faults a driver's own implementation of op may raise, per the docstring
\* of op (":raises ...").
DocumentedRaises(op) ==
  {"DriverError", "NotImplementedError"}
    \cup (IF op \in {"loadbalancer_create", "loadbalancer_update", "listener_create",
                     "listener_update", "pool_create", "pool_update",
                     "member_create", "member_update", "member_batch_update",
                     "health_monitor_create", "health_monitor_update", "l7policy_create",
                     "l7policy_update", "l7rule_create", "l7rule_update",
                     "validate_flavor", "validate_availability_zone"}
          THEN {"UnsupportedOptionError"} ELSE {})
    \cup (IF op = "validate_flavor" THEN {"NotFound"} ELSE {})

\* What a driver's own implementation of op returns when it accepts the request,
\* per the docstring of op (":return: Nothing ...", ":returns: ...").
DocumentedReturn(op) ==
  CASE op = "create_vip_port" -> "vip_dictionary, additional_vip_dicts"
    [] op \in {"get_supported_flavor_metadata", "get_supported_availability_zone_metadata"} ->
         "metadata dictionary"
    [] OTHER -> "None"

\* The outcomes of a driver's own implementation of op.  Its code is not part of
\* this file: any documented outcome may happen, and the strings of a fault it
\* raises are the driver's.
OverrideOutcomes(op) ==
  {[kind |-> "return", user_fault_string |-> "", operator_fault_string |-> "",
    value |-> DocumentedReturn(op)]}
    \cup {[kind |-> k, user_fault_string |-> "driver", operator_fault_string |-> "driver",
           value |-> "none"] : k \in DocumentedRaises(op)}

\* The outcomes of invoking op with arguments a on the driver instance.
Outcomes(op, a) ==
  IF Resolve(op) = "base" THEN {Call(op, a)} ELSE OverrideOutcomes(op)

\* No invocation yet.
NoCall == [op |-> "none", args |-> <<>>, body |-> "none", result |-> NoResult]

\* What the caller keeps of the invocation l when it next invokes op: all of it
\* when l was an invocation of op too, otherwise only which body ran.
Remember(l, op) ==
  IF l.op = op
  THEN l
  ELSE [op |-> IF l.op = "none" THEN "none" ELSE "other", args |-> <<>>,
        body |-> l.body, result |-> NoResult]

\* One invocation of op: the call raises or returns within the step; no stub
\* assigns to self or to the class.
Invoke(op) ==
  \E a \in ArgsOf(op, objects) :
    \E out \in Outcomes(op, a) :
      /\ last' = [op |-> op, args |-> a, body |-> Resolve(op), result |-> out]
      /\ prev' = Remember(last, op)
      /\ UNCHANGED <<name, overrides, objects, reference>>

Invoke_create_vip_port == Invoke("create_vip_port")
Invoke_loadbalancer_create == Invoke("loadbalancer_create")
Invoke_loadbalancer_delete == Invoke("loadbalancer_delete")
Invoke_loadbalancer_failover == Invoke("loadbalancer_failover")
Invoke_loadbalancer_update == Invoke("loadbalancer_update")
Invoke_listener_create == Invoke("listener_create")
Invoke_listener_delete == Invoke("listener_delete")
Invoke_listener_update == Invoke("listener_update")
Invoke_pool_create == Invoke("pool_create")
Invoke_pool_delete == Invoke("pool_delete")
Invoke_pool_update == Invoke("pool_update")
Invoke_member_create == Invoke("member_create")
Invoke_member_delete == Invoke("member_delete")
Invoke_member_update == Invoke("member_update")
Invoke_member_batch_update == Invoke("member_batch_update")
Invoke_health_monitor_create == Invoke("health_monitor_create")
Invoke_health_monitor_delete == Invoke("health_monitor_delete")
Invoke_health_monitor_update == Invoke("health_monitor_update")
Invoke_l7policy_create == Invoke("l7policy_create")
Invoke_l7policy_delete == Invoke("l7policy_delete")
Invoke_l7policy_update == Invoke("l7policy_update")
Invoke_l7rule_create == Invoke("l7rule_create")
Invoke_l7rule_delete == Invoke("l7rule_delete")
Invoke_l7rule_update == Invoke("l7rule_update")
Invoke_get_supported_flavor_metadata == Invoke("get_supported_flavor_metadata")
Invoke_validate_flavor == Invoke("validate_flavor")
Invoke_get_supported_availability_zone_metadata == Invoke("get_supported_availability_zone_metadata")
Invoke_validate_availability_zone == Invoke("validate_availability_zone")

\* The driver classes under test: the base class, a class overriding one
\* operation, a class overriding all but one, a class overriding all.
DriverClasses ==
  {{}} \cup {{op} : op \in Operations} \cup {Operations \ {op} : op \in Operations}
    \cup {Operations}

\* A fresh instance: the outcome of each stub invoked first, on minimal arguments.
FreshOutcomes ==
  [op \in Operations |-> Call(op, CHOOSE a \in ArgsOf(op, MinimalObjects) : TRUE)]

\* An instance of ProviderDriver itself.
Init ==
  /\ name = "None"
  /\ overrides = {}
  /\ objects = Objects
  /\ prev = NoCall
  /\ last = NoCall
  /\ reference = FreshOutcomes

\* An instance of a concrete driver, invoked by a conformance harness.
InitDriver ==
  /\ name = "None"
  /\ overrides \in DriverClasses
  /\ objects = MinimalObjects
  /\ prev = NoCall
  /\ last = NoCall
  /\ reference = FreshOutcomes

Next ==
  \/ Invoke_create_vip_port
  \/ Invoke_loadbalancer_create
  \/ Invoke_loadbalancer_delete
  \/ Invoke_loadbalancer_failover
  \/ Invoke_loadbalancer_update
  \/ Invoke_listener_create
  \/ Invoke_listener_delete
  \/ Invoke_listener_update
  \/ Invoke_pool_create
  \/ Invoke_pool_delete
  \/ Invoke_pool_update
  \/ Invoke_member_create
  \/ Invoke_member_delete
  \/ Invoke_member_update
  \/ Invoke_member_batch_update
  \/ Invoke_health_monitor_create
  \/ Invoke_health_monitor_delete
  \/ Invoke_health_monitor_update
  \/ Invoke_l7policy_create
  \/ Invoke_l7policy_delete
  \/ Invoke_l7policy_update
  \/ Invoke_l7rule_create
  \/ Invoke_l7rule_delete
  \/ Invoke_l7rule_update
  \/ Invoke_get_supported_flavor_metadata
  \/ Invoke_validate_flavor
  \/ Invoke_get_supported_availability_zone_metadata
  \/ Invoke_validate_availability_zone

Spec == Init /\ [][Next]_vars

SpecDriver == InitDriver /\ [][Next]_vars

(***************************************************************************)
(* Properties of the base class (Spec) and of concrete drivers             *)
(* (SpecDriver).                                                           *)
(***************************************************************************)

\* The last invocation ran a stub of the base class.
BaseCall == last.body = "base"

\* The operations whose operator string carries a rationale, and that rationale.
OperatorDetail(op) ==
  CASE op = "create_vip_port" -> "Octavia will create it."
    [] op = "loadbalancer_create" -> "What?"
    [] op = "validate_flavor" -> "the supported flavor metadata"
    [] op = "validate_availability_zone" -> "the supported availability zone metadata"
    [] OTHER -> ""

\* The length of the longest common prefix of s and t.
CommonPrefixLen(s, t) ==
  LET n == IF Len(s) < Len(t) THEN Len(s) ELSE Len(t)
      same == {k \in 0..n : SubSeq(s, 1, k) = SubSeq(t, 1, k)}
  IN  CHOOSE k \in same : \A j \in same : j <= k

\* The part of the operator string o that follows what it shares with the user
\* string u from the start.
OperatorOnly(u, o) == SubSeq(o, CommonPrefixLen(u, o) + 1, Len(o))

\* The opening words of every default fault string.
SupportPrefix == "This provider does not support "

\* C1: every one of the 28 operations, invoked on the base class, ends in
\* exceptions.NotImplementedError and in no other fault kind.
C1_BaseRaisesNotImplemented ==
  /\ Cardinality(Operations) = 28
  /\ BaseCall => /\ last.op \in Operations
                 /\ last.result.kind = "NotImplementedError"
                 /\ last.result.kind \notin {"UnsupportedOptionError", "NotFound", "DriverError"}

\* C1 witness: the last declared operation was invoked on the base class and
\* raised the unsupported-operation fault.
C1_Witness ==
  /\ BaseCall
  /\ last.op = "validate_availability_zone"
  /\ last.result.kind = "NotImplementedError"

\* C2 as stated: for every operation both strings are non-empty and the user
\* string differs from the operator string.
C2_Original ==
  BaseCall => /\ last.result.user_fault_string # ""
              /\ last.result.operator_fault_string # ""
              /\ last.result.user_fault_string # last.result.operator_fault_string

\* C2 amended: for every operation both strings are non-empty; they differ
\* for create_vip_port, loadbalancer_create, validate_flavor and
\* validate_availability_zone.
C2_NonEmptyStrings ==
  BaseCall => /\ last.result.user_fault_string # ""
              /\ last.result.operator_fault_string # ""
              /\ last.op \in {"create_vip_port", "loadbalancer_create", "validate_flavor",
                              "validate_availability_zone"}
                   => last.result.user_fault_string # last.result.operator_fault_string

\* C2 witness: validate_availability_zone raised with two non-empty, different
\* strings.
C2_Witness ==
  /\ BaseCall
  /\ last.op = "validate_availability_zone"
  /\ Len(last.result.user_fault_string) > 0
  /\ Len(last.result.operator_fault_string) > 0
  /\ last.result.user_fault_string # last.result.operator_fault_string

\* C3: the rationale the operator string carries (and whatever else follows the
\* text it shares with the user string) does not occur in the user string.
C3_NoOperatorDetailInUserString ==
  BaseCall =>
    LET u == last.result.user_fault_string
        o == last.result.operator_fault_string
    IN  /\ OperatorDetail(last.op) # ""
             => Contains(o, OperatorDetail(last.op)) /\ ~Contains(u, OperatorDetail(last.op))
        /\ OperatorDetail(last.op) = "" => u = o
        /\ OperatorOnly(u, o) # "" => ~Contains(u, OperatorOnly(u, o))

\* C3 witness: loadbalancer_create raised; its operator string ends in "What?"
\* and its user string does not contain it.
C3_Witness ==
  /\ BaseCall
  /\ last.op = "loadbalancer_create"
  /\ Contains(last.result.operator_fault_string, "What?")
  /\ ~Contains(last.result.user_fault_string, "What?")
  /\ OperatorOnly(last.result.user_fault_string, last.result.operator_fault_string) = " What?"

\* C4: on a driver that overrides the set overrides, an operation outside that
\* set still runs the base stub and raises the unsupported-operation fault with
\* the base strings, whatever was invoked before.
C4_NotOverriddenKeepsDefault ==
  (last.op \in Operations /\ last.op \notin overrides) =>
    /\ last.body = "base"
    /\ last.result.kind = "NotImplementedError"
    /\ last.result = reference[last.op]

\* C4 witness: on a driver with overrides, an operation it does not override
\* raised the default fault right after an overridden operation had run.
C4_Witness ==
  /\ overrides # {}
  /\ last.op \in Operations \ overrides
  /\ prev.body = "override"
  /\ last.result = reference[last.op]
  /\ last.result.kind = "NotImplementedError"

C6_BatchUpdateEmptyOrNot ==
  (BaseCall /\ last.op = "member_batch_update") =>
    /\ last.result = member_batch_update(last.args[1], <<>>)
    /\ last.result.kind = "NotImplementedError"
    /\ prev.op = "member_batch_update" => prev.result = last.result

\* C6 witness: member_batch_update was invoked with an empty list and then, for
\* the same pool, with a non-empty one, with the same outcome.
C6_Witness ==
  /\ BaseCall
  /\ last.op = "member_batch_update"
  /\ prev.op = "member_batch_update"
  /\ prev.args[1] = last.args[1]
  /\ prev.args[2] = <<>>
  /\ last.args[2] # <<>>
  /\ prev.result = last.result

\* C8: an invocation of a base operation ends in a fault: it never returns, it
\* yields no return value, and nothing of the driver has changed.
C8_BaseNeverReturns ==
  BaseCall => /\ last.result.kind \in FaultKinds
              /\ last.result.kind # "return"
              /\ last.result.value = "none"
              /\ name = "None"

\* C8 witness: create_vip_port was invoked on the base class and raised a fault
\* instead of returning VIP dictionaries.
C8_Witness ==
  /\ BaseCall
  /\ last.op = "create_vip_port"
  /\ last.result.kind \in FaultKinds
  /\ last.result.value = "none"

\* C9: name stays None, and the outcome of every invocation is the outcome the
\* operation has when it is invoked first on a fresh instance.
C9_Stateless ==
  /\ name = "None"
  /\ reference = FreshOutcomes
  /\ BaseCall => last.result = reference[last.op]
  /\ (BaseCall /\ prev.op = last.op) => prev.result = last.result

\* C9 witness: loadbalancer_failover was invoked after another operation and
\* had the outcome of a first invocation.
C9_Witness ==
  /\ BaseCall
  /\ last.op = "loadbalancer_failover"
  /\ prev.op = "other"
  /\ name = "None"
  /\ last.result = reference[last.op]

\* C10: both strings of every default fault begin with "This provider does not
\* support " and go on with a non-empty description.
C10_SupportPrefix ==
  BaseCall => /\ StartsWith(last.result.user_fault_string, SupportPrefix)
              /\ StartsWith(last.result.operator_fault_string, SupportPrefix)
              /\ Len(last.result.user_fault_string) > Len(SupportPrefix)
              /\ Len(last.result.operator_fault_string) > Len(SupportPrefix)

\* C10 witness: get_supported_flavor_metadata raised with both strings of that
\* form.
C10_Witness ==
  /\ BaseCall
  /\ last.op = "get_supported_flavor_metadata"
  /\ StartsWith(last.result.user_fault_string, SupportPrefix)
  /\ StartsWith(last.result.operator_fault_string, SupportPrefix)
  /\ Len(last.result.user_fault_string) > Len(SupportPrefix)

\* C11: the outcome of a base operation does not depend on its arguments: it is
\* the outcome of that operation for every other argument tuple the caller can
\* pass, and the outcome of the preceding invocation of the same operation.
C11_ArgumentIndependent ==
  BaseCall =>
    /\ \A a \in ArgsOf(last.op, objects) : Call(last.op, a) = last.result
    /\ (prev.op = last.op /\ prev.args # last.args) =>
         /\ prev.result.kind = last.result.kind
         /\ prev.result.user_fault_string = last.result.user_fault_string
         /\ prev.result.operator_fault_string = last.result.operator_fault_string

\* C11 witness: loadbalancer_delete was invoked without and then with cascade on
\* the same load balancer, with the same fault both times.
C11_Witness ==
  /\ BaseCall
  /\ last.op = "loadbalancer_delete"
  /\ prev.op = "loadbalancer_delete"
  /\ prev.args[1] = last.args[1]
  /\ prev.args[2] = FALSE
  /\ last.args[2] = TRUE
  /\ prev.result = last.result

\* The operations whose two default strings are different texts.
DifferingOperations ==
  {"create_vip_port", "loadbalancer_create", "validate_flavor", "validate_availability_zone"}

\* The operations whose operator string is the user string with more text after it.
ExtendingOperations == {"create_vip_port", "loadbalancer_create"}

\* C12: the default fault identifies the operation: no other operation, whatever
\* its arguments, raises with the same user string, and none with the same
\* operator string.
C12_StringsIdentifyOperation ==
  BaseCall =>
    \A op \in Operations \ {last.op} :
      /\ reference[op].user_fault_string # last.result.user_fault_string
      /\ reference[op].operator_fault_string # last.result.operator_fault_string
      /\ \A a \in ArgsOf(op, objects) :
           /\ Call(op, a).user_fault_string # last.result.user_fault_string
           /\ Call(op, a).operator_fault_string # last.result.operator_fault_string

\* C12 witness: validate_flavor raised, with strings that are not those of
\* get_supported_flavor_metadata.
C12_Witness ==
  /\ BaseCall
  /\ last.op = "validate_flavor"
  /\ last.result.user_fault_string # reference["get_supported_flavor_metadata"].user_fault_string
  /\ last.result.operator_fault_string
       # reference["get_supported_flavor_metadata"].operator_fault_string

\* C13: the two strings differ for exactly create_vip_port, loadbalancer_create,
\* validate_flavor and validate_availability_zone and are equal for the other 24
\* operations; the operator string has the user string as a proper prefix only
\* for create_vip_port and loadbalancer_create.
C13_WhereStringsDiffer ==
  /\ Cardinality(DifferingOperations) = 4
  /\ Cardinality(Operations \ DifferingOperations) = 24
  /\ BaseCall =>
       LET u == last.result.user_fault_string
           o == last.result.operator_fault_string
       IN  /\ (u # o) <=> (last.op \in DifferingOperations)
           /\ (u # o /\ StartsWith(o, u)) <=> (last.op \in ExtendingOperations)

\* C13 witness: validate_flavor raised with two different strings, neither a
\* prefix of the other.
C13_Witness ==
  /\ BaseCall
  /\ last.op = "validate_flavor"
  /\ last.result.user_fault_string # last.result.operator_fault_string
  /\ ~StartsWith(last.result.operator_fault_string, last.result.user_fault_string)
  /\ ~StartsWith(last.result.user_fault_string, last.result.operator_fault_string)

====
